---- MODULE Spec2Model ----
(***************************************************************************)
(* Model of WorkspaceEditingService                                        *)
(* (src/vs/workbench/services/workspace/node/workspaceEditingService.ts).  *)
(*                                                                         *)
(* Each behaviour is one call of a public method, or one shutdown event,   *)
(* in some session state.  Every promise continuation of the source is one *)
(* action; pc names the continuation that runs next.  The collaborators    *)
(* (window host, file service, storage, dialogs, configuration,            *)
(* environment) answer nondeterministically when                           *)
(* the code asks them; the variable named after an answer holds the answer *)
(* that was given.  log is the trace of collaborator calls made by the     *)
(* operation that is running.                                              *)
(***************************************************************************)
EXTENDS Integers, Sequences, FiniteSets, TLC

VARIABLES
    platform,              \* isWindows / isLinux / isMacintosh
    testMode,              \* answer: !!environmentService.extensionTestsLocationURI
    remoteAuthority,       \* answer: !!windowService.getConfiguration().remoteAuthority
    backupConcrete,        \* answer: backupFileService instanceof BackupFileService
    folders,               \* contextService.getWorkspace().folders (uris)
    configuration,         \* contextService.getWorkspace().configuration
    files,                 \* workspace files on disk, by comparison key
    extHost,               \* extension host: "running" | "stopped"
    recent,                \* windowsService recently opened workspaces
    windows,               \* answer: workspaces in windowsService.getWindows()
    validating,            \* path of a running isValidTargetWorkspacePath
    pc,                    \* continuation that runs next
    op,                    \* the public operation in progress
    args,                  \* its arguments
    path,                  \* local: path of enterWorkspace / save target
    source,                \* local: workspace handed to saveWorkspaceAs
    raw,                   \* local: contents read by saveWorkspaceAs
    cont,                  \* local: who awaits saveWorkspaceAs
    extensionHostStarted,  \* local of enterWorkspace
    prevState,             \* workbench state when enterWorkspace was called
    created,               \* folder lists handed to createUntitledWorkspace
    edits,                 \* edits handed to the workspace context service
    log,                   \* collaborator calls of the running operation
    result,                \* how the operation's promise settled
    error,                 \* the rejection value
    pre,                   \* snapshot taken when the operation was called
    wsKeys,                \* answer of configurationService.keys().workspace
    warned,                \* the "already opened" message box was shown
    valid,                 \* what the promise of isValidTargetWorkspacePath resolved to
    windowCount,           \* answer: windowsService.getWindowCount()
    shown,                 \* results of the buttons handed to dialogService.show
    cancelId,              \* the cancelId handed to dialogService.show
    user,                  \* what the user did with the shutdown dialog
    picked,                \* answer: the save dialog's location
    hostAnswer,            \* answer: windowService.enterWorkspace(path)
    failed,                \* the collaborator call that failed, if any
    inv                    \* the enterWorkspace invocations that run side by side

sessVars == <<platform, inv, folders, configuration, files, recent>>
callVars == <<op, args, pre>>
\* what the bodies of enterWorkspace, saveWorkspaceAs and createAndEnterWorkspace set
flowVars == <<pc, result, error, log, created, validating, path, source, raw, cont,
              extensionHostStarted, prevState, extHost, testMode>>
\* which collaborator declined or failed
ansVars  == <<hostAnswer, failed>>
\* answers and calls of the other steps
dialogVars == <<windowCount, shown, cancelId, user, picked>>
outVars  == <<remoteAuthority, backupConcrete, windows, edits, wsKeys, warned, valid, dialogVars>>
vars     == <<sessVars, callVars, flowVars, outVars, ansVars>>

----------------------------------------------------------------------------
(* Bounds of the model *)

\* longest foldersToAdd / foldersToRemove argument
MaxAdd == 2
\* longest foldersToAdd argument of addFolders
MaxAddFolders == 3
\* largest index / deleteCount argument
MaxIndex == 2
\* largest answer of windowsService.getWindowCount()
MaxWindows == 2

----------------------------------------------------------------------------
(* Resources.  "a" and "A", "T1" and "t1" differ in case only. *)

URIs == {"a", "A", "b"}

NoPath == "none"
UntitledPaths == {"U1", "U2"}
Paths == UntitledPaths \cup {"T1", "t1"}

Lower(u) ==
    CASE u = "A" -> "a"
      [] u = "T1" -> "t1"
      [] OTHER -> u

isWindows == platform = "windows"
isLinux == platform = "linux"
isMacintosh == platform = "mac"

\* resources.hasToIgnoreCase: file resources on every platform but Linux
hasToIgnoreCase == ~isLinux

getComparisonKey(u) == IF hasToIgnoreCase THEN Lower(u) ELSE u

isEqual(u, v) == getComparisonKey(u) = getComparisonKey(v)

\* isEqualOrParent(configPath, environmentService.untitledWorkspacesHome)
isUntitled(p) == \E q \in UntitledPaths : isEqual(p, q)

----------------------------------------------------------------------------
(* Sequences *)

SeqsUpTo(S, n) == UNION {[1..k -> S] : k \in 0..n}

Range(s) == {s[i] : i \in 1..Len(s)}

\* Array.prototype.slice(from, to), 0-based, to exclusive
Slice(s, from, to) ==
    LET lo == IF from > Len(s) THEN Len(s) ELSE from
        hi == IF to > Len(s) THEN Len(s) ELSE to
    IN  IF hi <= lo THEN <<>> ELSE SubSeq(s, lo + 1, hi)

\* Array.prototype.splice(start, 0, ...items) on a copy
Splice(s, start, items) ==
    LET at == IF start > Len(s) THEN Len(s) ELSE start
    IN  SubSeq(s, 1, at) \o items \o SubSeq(s, at + 1, Len(s))

\* arrays.distinct(array, keyFn): keeps the first element of every key
RECURSIVE distinctFrom(_, _)
distinctFrom(s, seen) ==
    IF s = <<>> THEN <<>>
    ELSE IF getComparisonKey(Head(s)) \in seen
         THEN distinctFrom(Tail(s), seen)
         ELSE <<Head(s)>> \o
              distinctFrom(Tail(s), seen \cup {getComparisonKey(Head(s))})

distinct(s) == distinctFrom(s, {})

----------------------------------------------------------------------------
(* Workspace, workspace files, configuration registry *)

\* WorkspaceService.getWorkbenchState()
getWorkbenchState ==
    IF configuration # NoPath THEN "WORKSPACE"
    ELSE IF Len(folders) = 1 THEN "FOLDER"
    ELSE "EMPTY"

\* getCurrentWorkspaceIdentifier(): the configPath, or NoPath for undefined
getCurrentWorkspaceIdentifier == configuration

\* A workspace file: its folder entries, the location its relative entries
\* are expressed against, and its settings block.
NoFile == [exists |-> FALSE, folders |-> <<>>, home |-> NoPath, settings |-> {}]

NewFile(fs, at) ==
    [exists |-> TRUE, folders |-> fs, home |-> getComparisonKey(at), settings |-> {}]

fileAt(p) == files[getComparisonKey(p)]

\* the folders a reader of the file at p resolves: relative entries resolve
\* correctly only when they are expressed against the file's own location
resolvedFolders(p) ==
    IF fileAt(p).home = getComparisonKey(p) THEN fileAt(p).folders ELSE <<>>

\* rewriteWorkspaceFileForNewLocation(raw, configPathURI, targetConfigPathURI)
rewriteWorkspaceFileForNewLocation(content, from, to) ==
    [content EXCEPT !.home = getComparisonKey(to)]

Keys == {"kWindow", "kMachine", "kResource", "kUnregistered"}

\* configurationRegistry.getConfigurationProperties()[key].scope
RegisteredKeys == {"kWindow", "kMachine", "kResource"}
scopeOf(key) ==
    CASE key = "kWindow" -> "WINDOW"
      [] key = "kMachine" -> "MACHINE"
      [] key = "kResource" -> "RESOURCE"
      [] OTHER -> "NONE"

\* configurationService.inspect(key): the values by level
inspectWorkspace(key) == <<"workspace", key>>
inspectUser(key) == <<"user", key>>

----------------------------------------------------------------------------
(* Initial states *)

NoArgs ==
    [index |-> 0, hasDeleteCount |-> FALSE, deleteCount |-> 0,
     hasFoldersToAdd |-> FALSE, foldersToAdd |-> <<>>,
     donotNotifyError |-> FALSE, path |-> NoPath, reason |-> "NONE"]

Snapshot ==
    [folders |-> folders, configuration |-> configuration, files |-> files,
     extHost |-> extHost, recent |-> recent, state |-> getWorkbenchState]

NoSnapshot ==
    [folders |-> <<>>, configuration |-> NoPath, files |-> [p \in Paths |-> NoFile],
     extHost |-> "running", recent |-> {}, state |-> "EMPTY"]

\* enterWorkspace invocations that may overlap, and one that was not made yet:
\* its continuation, its path, its local extensionHostStarted, what the host
\* answered and how its promise settled
Invocations == {1, 2}

NoInvocation ==
    [pc |-> "idle", path |-> NoPath, extensionHostStarted |-> FALSE,
     answer |-> "none", result |-> "pending"]

InitWorkspaces ==
    {[folders |-> <<>>, configuration |-> NoPath],
     [folders |-> <<"a">>, configuration |-> NoPath],
     [folders |-> <<>>, configuration |-> "T1"],
     [folders |-> <<"a", "b">>, configuration |-> "T1"],
     [folders |-> <<"a">>, configuration |-> "U1"],
     [folders |-> <<"a", "b">>, configuration |-> "U1"]}

Init ==
    /\ platform \in {"windows", "linux", "mac"}
    /\ testMode = FALSE
    /\ remoteAuthority = FALSE
    /\ backupConcrete = FALSE
    /\ \E w \in InitWorkspaces :
        /\ folders = w.folders
        /\ configuration = w.configuration
        /\ files = [p \in Paths |->
                      IF w.configuration # NoPath
                         /\ p = getComparisonKey(w.configuration)
                      THEN NewFile(w.folders, p)
                      ELSE IF p = getComparisonKey("T1")
                      THEN NewFile(<<"b">>, p)
                      ELSE NoFile]
    /\ extHost = "running"
    /\ recent = {}
    /\ windows = {}
    /\ validating = NoPath
    /\ pc = "idle"
    /\ op = "none"
    /\ args = NoArgs
    /\ path = NoPath
    /\ source = NoPath
    /\ raw = NoFile
    /\ cont = "none"
    /\ extensionHostStarted = FALSE
    /\ prevState = "EMPTY"
    /\ created = <<>>
    /\ edits = <<>>
    /\ wsKeys = {}
    /\ warned = FALSE
    /\ valid = "none"
    /\ windowCount = 0
    /\ shown = <<>>
    /\ cancelId = 0
    /\ user = "none"
    /\ picked = NoPath
    /\ hostAnswer = "none"
    /\ failed = "none"
    /\ inv = [i \in Invocations |-> NoInvocation]
    /\ log = <<>>
    /\ result = "pending"
    /\ error = "none"
    /\ pre = NoSnapshot

\* a public method is called with arguments a while no operation is running
Called(name, a) ==
    /\ pc = "idle"
    /\ op' = name
    /\ args' = a
    /\ pre' = Snapshot

\* the promise of the running operation settles
Settle(res, err, l) ==
    /\ pc' = "done"
    /\ result' = res
    /\ error' = err
    /\ log' = l

----------------------------------------------------------------------------
(* enterWorkspace, lines 337-381 *)

\* startExtensionHost, lines 347-354: the calls it makes; ra is remoteAuthority
startExtensionHost(l, ra) ==
    IF ra
    THEN l \o <<"reloadWindow", "startExtensionHost">>
    ELSE l \o <<"startExtensionHost">>

\* an entry that stops the extension host before it looks at the test location
enterWorkspaceStopsFirst(p, l) ==
    /\ path' = p
    /\ prevState' = getWorkbenchState
    /\ extensionHostStarted' = FALSE
    /\ extHost' = "stopped"
    /\ \E tm \in BOOLEAN :
        /\ testMode' = tm
        /\ IF tm
           THEN Settle("rejected", "ErrTests", l \o <<"stopExtensionHost">>)
           ELSE /\ pc' = "ew_enter"
                /\ result' = "pending"
                /\ error' = "none"
                /\ log' = l \o <<"stopExtensionHost", "enterWorkspace">>
    /\ UNCHANGED <<created, validating, source, raw, cont>>

\* the synchronous part of enterWorkspace(p), lines 338-356; l is the log so far
enterWorkspace(p, l) ==
    /\ path' = p
    /\ prevState' = getWorkbenchState
    /\ extensionHostStarted' = FALSE
    /\ \E tm \in BOOLEAN :
        /\ testMode' = tm
        /\ IF tm
           THEN /\ Settle("rejected", "ErrTests", l)
                /\ extHost' = extHost
           ELSE /\ pc' = "ew_enter"
                /\ result' = "pending"
                /\ error' = "none"
                /\ log' = l \o <<"stopExtensionHost", "enterWorkspace">>
                /\ extHost' = "stopped"
    /\ UNCHANGED <<created, validating, source, raw, cont>>

EnterWorkspaceCall ==
    /\ pc = "idle"
    /\ UNCHANGED ansVars
    /\ \E p \in Paths :
        /\ Called("enterWorkspace", [NoArgs EXCEPT !.path = p])
        /\ enterWorkspace(p, <<>>)
        /\ UNCHANGED <<sessVars, outVars>>

\* a continuation that reinitializes the configuration service first
AfterMigrateConfigFirst(l) ==
    \E bc \in BOOLEAN :
        /\ backupConcrete' = bc
        /\ \/ /\ pc' = "ew_init"
              /\ log' = l \o <<"config.initialize">>
                           \o (IF bc THEN <<"backup.initialize">> ELSE <<>>)
              /\ error' = error
              /\ failed' = failed
           \/ /\ bc
              /\ pc' = "ew_catch"
              /\ log' = l \o <<"backup.initialize">>
              /\ error' = "ErrBackup"
              /\ failed' = "backup"

\* lines 362-369: reinitialize the backup service, then the configuration service
AfterMigrate(l) ==
    \E bc \in BOOLEAN :
        /\ backupConcrete' = bc
        /\ \/ /\ pc' = "ew_init"
              /\ log' = (IF bc THEN l \o <<"backup.initialize">> ELSE l)
                           \o <<"config.initialize">>
              /\ error' = error
              /\ failed' = failed
           \/ /\ bc
              /\ pc' = "ew_catch"
              /\ log' = l \o <<"backup.initialize">>
              /\ error' = "ErrBackup"
              /\ failed' = "backup"

\* a filter that lets every scope through
copyFilterAnyScope(key) == TRUE

\* line 404: the filter of migrateWorkspaceSettings
copyFilter(key) == scopeOf(key) = "WINDOW"

\* doCopyWorkspaceSettings, lines 411-425: the settings block it builds
targetWorkspaceConfiguration(wk, filtered) ==
    {<<key, inspectWorkspace(key)>> : key \in
        {k \in wk : k \in RegisteredKeys /\ (filtered => copyFilter(k))}}

\* migrate, line 389: settings are migrated when coming from a folder
migratesSettings == getWorkbenchState = "FOLDER"

\* windowService.enterWorkspace(path) settles, lines 356-374
HostEntered ==
    /\ pc = "ew_enter"
    /\ \/ /\ fileAt(path).exists
          /\ hostAnswer' = "result"
          /\ pc' = "ew_storage"
          /\ log' = log \o <<"storage.migrate">>
          /\ UNCHANGED <<result, error, failed>>
       \/ /\ hostAnswer' = "undefined"
          /\ Settle("resolved", error, log)
          /\ UNCHANGED failed
       \/ /\ hostAnswer' = "error"
          /\ failed' = "enter"
          /\ pc' = "ew_catch"
          /\ error' = "ErrEnter"
          /\ UNCHANGED <<log, result>>
    /\ UNCHANGED <<sessVars, callVars, outVars, created, validating, path, source,
                   raw, cont, extensionHostStarted, prevState, extHost, testMode>>

\* storageImpl.migrate(toWorkspace) settles, lines 386-394
StorageMigrated ==
    /\ pc = "ew_storage"
    /\ \/ /\ migratesSettings
          /\ \E wk \in SUBSET Keys : wsKeys' = wk
          /\ pc' = "ew_settings"
          /\ log' = log \o <<"settings.write">>
          /\ UNCHANGED <<error, backupConcrete, failed>>
       \/ /\ ~migratesSettings
          /\ AfterMigrate(log)
          /\ UNCHANGED wsKeys
       \/ /\ pc' = "ew_catch"
          /\ error' = "ErrStorage"
          /\ failed' = "storage"
          /\ UNCHANGED <<log, wsKeys, backupConcrete>>
    /\ UNCHANGED <<hostAnswer, sessVars, callVars, remoteAuthority, windows, edits, warned, valid, dialogVars, result, created, validating, path, source, raw, cont,
                   extensionHostStarted, prevState, extHost, testMode>>

\* jsonEditingService.write(configPath, {key: 'settings', value}, true) settles
SettingsWritten ==
    /\ pc = "ew_settings"
    /\ \/ /\ files' = [files EXCEPT ![getComparisonKey(path)].settings =
                                     targetWorkspaceConfiguration(wsKeys, TRUE)]
          /\ AfterMigrate(log)
       \/ /\ pc' = "ew_catch"
          /\ error' = "ErrSettings"
          /\ failed' = "settings"
          /\ UNCHANGED <<log, files, backupConcrete>>
    /\ UNCHANGED <<hostAnswer, wsKeys, platform, inv, folders, configuration, recent, callVars, remoteAuthority,
                   windows, edits, warned, valid, dialogVars,
                   result, created, validating, path, source, raw, cont,
                   extensionHostStarted, prevState, extHost, testMode>>

\* workspaceImpl.initialize(result.workspace, startExtensionHost) settles:
\* it fails before running the callback, or runs it and then resolves or fails
ConfigInitialized ==
    /\ pc = "ew_init"
    /\ \/ /\ pc' = "ew_catch"
          /\ error' = "ErrInitialize"
          /\ failed' = "initialize"
          /\ UNCHANGED <<folders, configuration, extHost, extensionHostStarted, log, result,
                         remoteAuthority>>
       \/ /\ configuration' = path
          /\ folders' = resolvedFolders(path)
          /\ \E ra \in BOOLEAN :
                /\ remoteAuthority' = ra
                /\ log' = startExtensionHost(log, ra)
          /\ extHost' = "running"
          /\ extensionHostStarted' = TRUE
          /\ \/ /\ pc' = "done" /\ result' = "resolved"
                /\ UNCHANGED <<error, failed>>
             \/ /\ pc' = "ew_catch" /\ error' = "ErrInitialize" /\ result' = result
                /\ failed' = "initialize"
    /\ UNCHANGED <<hostAnswer, platform, inv, files, recent, callVars, backupConcrete, windows, edits, wsKeys,
                   warned, valid, dialogVars, created, validating,
                   path, source, raw, cont, prevState, testMode>>

\* a handler that starts the extension host whatever was started before
startsOnErrorAlways(started) == TRUE

\* line 375: the rejection handler starts the extension host if not started
startsOnError(started) == ~started

\* the rejection handler, lines 374-380
EnterRejected ==
    /\ pc = "ew_catch"
    /\ IF startsOnError(extensionHostStarted)
       THEN /\ \E ra \in BOOLEAN :
                /\ remoteAuthority' = ra
                /\ log' = startExtensionHost(log, ra)
            /\ extHost' = "running"
            /\ extensionHostStarted' = TRUE
       ELSE UNCHANGED <<log, extHost, extensionHostStarted, remoteAuthority>>
    /\ pc' = "done"
    /\ result' = "rejected"
    /\ UNCHANGED <<ansVars, sessVars, callVars, backupConcrete, windows, edits, wsKeys, warned, valid,
                   dialogVars, error, created, validating, path,
                   source, raw, cont, prevState, testMode>>

----------------------------------------------------------------------------
(* saveWorkspaceAs, lines 290-302 *)

\* a save that reads and writes whatever the target is
saveWorkspaceAsAlways(workspace, target, k, l) ==
    /\ source' = workspace
    /\ path' = target
    /\ raw' = NoFile
    /\ cont' = k
    /\ pc' = "sa_read" /\ log' = l \o <<"resolveContent">>
    /\ UNCHANGED <<result, error, created, extensionHostStarted, prevState, extHost,
                   testMode>>

\* the synchronous part of saveWorkspaceAs(workspace, target) awaited by k;
\* l is the log so far
saveWorkspaceAs(workspace, target, k, l) ==
    /\ source' = workspace
    /\ path' = target
    /\ raw' = NoFile
    /\ cont' = k
    /\ IF isEqual(workspace, target)
       THEN pc' = "sa_done" /\ log' = l
       ELSE pc' = "sa_read" /\ log' = l \o <<"resolveContent">>
    /\ UNCHANGED <<result, error, created, extensionHostStarted, prevState, extHost,
                   testMode>>

\* fileSystemService.resolveContent(configPathURI) settles, lines 299-301
ContentResolved ==
    /\ pc = "sa_read"
    /\ \/ /\ fileAt(source).exists
          /\ raw' = rewriteWorkspaceFileForNewLocation(fileAt(source), source, path)
          /\ pc' = "sa_write"
          /\ log' = log \o <<"createFile">>
          /\ UNCHANGED failed
       \/ /\ pc' = "sa_failed"
          /\ failed' = "read"
          /\ UNCHANGED <<raw, log>>
    /\ UNCHANGED <<hostAnswer, sessVars, callVars, outVars, result, error, created, validating,
                   path, source, cont, extensionHostStarted, prevState, extHost, testMode>>

\* fileSystemService.createFile(target, contents, {overwrite: true}) settles
FileCreated ==
    /\ pc = "sa_write"
    /\ \/ /\ files' = [files EXCEPT ![getComparisonKey(path)] = raw]
          /\ pc' = "sa_done"
          /\ UNCHANGED failed
       \/ /\ pc' = "sa_failed"
          /\ failed' = "write"
          /\ UNCHANGED files
    /\ UNCHANGED <<hostAnswer, platform, inv, folders, configuration, recent, callVars, outVars,
                   result, error, log, created, validating, path, source, raw, cont,
                   extensionHostStarted, prevState, extHost, testMode>>

\* lines 251-255 and 266-268: the save is done, the workspace is entered
SavedThenEnter ==
    /\ pc = "sa_done"
    /\ cont = "enter"
    /\ enterWorkspace(path, log)
    /\ UNCHANGED <<sessVars, callVars, outVars, ansVars>>

\* the save failed: createAndEnterWorkspace / saveAndEnterWorkspace reject
SaveFailedEnter ==
    /\ pc = "sa_failed"
    /\ cont = "enter"
    /\ Settle("rejected", "ErrSave", log)
    /\ UNCHANGED <<ansVars, sessVars, callVars, outVars, created, validating, path, source,
                   raw, cont, extensionHostStarted, prevState, extHost, testMode>>

----------------------------------------------------------------------------
(* isValidTargetWorkspacePath, lines 271-288 *)

\* the workspaces other windows may have open
WindowSets == {{}, {"t1"}}

\* the locations a caller saves a workspace to
TargetPaths == {"T1", "t1"}

\* a test that compares the locations as they are written
openedInWindowAsWritten(ws, p) == \E w \in ws : w = p

\* line 276: a window has the workspace at p open
openedInWindow(ws, p) == \E w \in ws : isEqual(w, p)

\* isValidTargetWorkspacePath(p) is called by a client, lines 271-273
IsValidTargetWorkspacePathCall ==
    /\ pc = "idle"
    /\ \E p \in TargetPaths :
        /\ Called("isValidTargetWorkspacePath", [NoArgs EXCEPT !.path = p])
        /\ validating' = p
        /\ pc' = "vt_windows"
    /\ UNCHANGED <<ansVars, sessVars, outVars, result, error, log, created, path, source,
                   raw, cont, extensionHostStarted, prevState, extHost, testMode>>

\* lines 245 and 259 negate the promise isValidTargetWorkspacePath returns,
\* never the value it resolves to, and a promise object is truthy
refusesTarget(p) == ~ TRUE

\* windowsService.getWindows() settles, lines 273-287: the message box is
\* shown and closed, and the promise of the check resolves.  The promise is
\* that of the client's call, or one that createAndEnterWorkspace or
\* saveAndEnterWorkspace made and nobody awaits.
WindowsListed ==
    /\ validating # NoPath
    /\ validating' = NoPath
    /\ \E ws \in WindowSets :
        /\ windows' = ws
        /\ warned' = openedInWindow(ws, validating)
        /\ valid' = IF openedInWindow(ws, validating) THEN "false" ELSE "true"
    /\ IF pc = "vt_windows"
       THEN pc' = "done" /\ result' = valid'
       ELSE UNCHANGED <<pc, result>>
    /\ UNCHANGED <<ansVars, sessVars, callVars, remoteAuthority, backupConcrete, edits, wsKeys,
                   dialogVars, error, log, created, path, source,
                   raw, cont, extensionHostStarted, prevState, extHost, testMode>>

----------------------------------------------------------------------------
(* createAndEnterWorkspace, lines 244-256; saveAndEnterWorkspace, lines 258-269 *)

\* the synchronous part of createAndEnterWorkspace(fs, p), lines 245-249;
\* l is the log so far
createAndEnterWorkspace(fs, p, l) ==
    /\ path' = p
    /\ IF p # NoPath /\ refusesTarget(p)
       THEN /\ Settle("rejected", "null", l)
            /\ validating' = p
            /\ UNCHANGED created
       ELSE /\ validating' = p
            /\ pc' = "cae_create"
            /\ created' = Append(created, fs)
            /\ log' = l \o <<"createUntitledWorkspace">>
            /\ result' = "pending"
            /\ error' = "none"
    /\ UNCHANGED <<source, raw, cont, extensionHostStarted, prevState, extHost, testMode>>

CreateAndEnterWorkspaceCall ==
    /\ pc = "idle"
    /\ UNCHANGED ansVars
    /\ \E fs \in SeqsUpTo(URIs, MaxAdd), p \in TargetPaths \cup {NoPath} :
        /\ Called("createAndEnterWorkspace",
                  [NoArgs EXCEPT !.hasFoldersToAdd = TRUE, !.foldersToAdd = fs, !.path = p])
        /\ createAndEnterWorkspace(fs, p, <<>>)
        /\ UNCHANGED <<sessVars, outVars>>

\* the location of the next untitled workspace: one that holds no file yet
freshUntitled ==
    IF ~fileAt("U1").exists THEN "U1"
    ELSE IF ~fileAt("U2").exists THEN "U2"
    ELSE NoPath

\* workspaceService.createUntitledWorkspace(folders, remoteAuthority) settles,
\* lines 249-255
UntitledCreated ==
    /\ pc = "cae_create"
    /\ \/ \E u \in UntitledPaths :
            /\ u = freshUntitled
            /\ files' = [files EXCEPT ![getComparisonKey(u)] = NewFile(created[Len(created)], u)]
            /\ IF args.path # NoPath
               THEN saveWorkspaceAs(u, args.path, "enter", log) /\ UNCHANGED validating
               ELSE enterWorkspace(u, log)
            /\ UNCHANGED failed
       \/ /\ Settle("rejected", "ErrCreate", log)
          /\ failed' = "create"
          /\ UNCHANGED <<files, created, validating, path, source, raw, cont,
                         extensionHostStarted, prevState, extHost, testMode>>
    /\ UNCHANGED <<hostAnswer, platform, inv, folders, configuration, recent, callVars, outVars>>

\* the synchronous part of saveAndEnterWorkspace(p), lines 259-266
SaveAndEnterWorkspaceCall ==
    /\ pc = "idle"
    /\ UNCHANGED ansVars
    /\ \E p \in TargetPaths :
        /\ Called("saveAndEnterWorkspace", [NoArgs EXCEPT !.path = p])
        /\ validating' = p
        /\ IF refusesTarget(p) \/ getCurrentWorkspaceIdentifier = NoPath
           THEN /\ Settle("rejected", "null", log)
                /\ UNCHANGED <<created, path, source, raw, cont,
                               extensionHostStarted, prevState, extHost, testMode>>
           ELSE saveWorkspaceAs(getCurrentWorkspaceIdentifier, p, "enter", log)
        /\ UNCHANGED <<sessVars, outVars>>

----------------------------------------------------------------------------
(* updateFolders, addFolders, removeFolders: lines 146-242 *)

\* the operation resolves at once and touches nothing
resolveNow(l) ==
    /\ Settle("resolved", "none", l)
    /\ UNCHANGED <<created, validating, path, source, raw, cont, extensionHostStarted,
                   prevState, extHost, testMode, edits>>

\* an edit is handed to the workspace context service: contextService.addFolders,
\* removeFolders or updateFolders, lines 192, 218, 231
delegate(kind, toAdd, toDelete, hasIndex, index, donotNotifyError, l) ==
    /\ pc' = "ctx_edit"
    /\ edits' = Append(edits, [kind |-> kind, add |-> toAdd, del |-> toDelete,
                               hasIndex |-> hasIndex, index |-> index,
                               donotNotifyError |-> donotNotifyError])
    /\ log' = l \o <<kind>>
    /\ UNCHANGED <<result, error, created, validating, path, source, raw, cont,
                   extensionHostStarted, prevState, extHost, testMode>>

\* a test that looks at the state only
includesSingleFolderWorkspaceAnyFolder(fs) ==
    getWorkbenchState = "FOLDER"

\* includesSingleFolderWorkspace, lines 235-242
includesSingleFolderWorkspace(fs) ==
    /\ getWorkbenchState = "FOLDER"
    /\ \E i \in 1..Len(fs) : isEqual(fs[i], folders[1])

\* the candidate list left as spliced, duplicates included
newWorkspaceFoldersSpliced(toAdd, hasIndex, index) ==
    Splice(folders, IF hasIndex THEN index ELSE Len(folders), toAdd)

\* lines 206-208: the folders of the workspace to create
newWorkspaceFolders(toAdd, hasIndex, index) ==
    distinct(Splice(folders, IF hasIndex THEN index ELSE Len(folders), toAdd))

\* a guard that knows of the EMPTY state only
isNoOpForEmptyState(fs) ==
    getWorkbenchState = "EMPTY" /\ Len(fs) = 0

\* line 210: the operation is a no-op for the current state
isNoOpForState(fs) ==
    \/ getWorkbenchState = "EMPTY" /\ Len(fs) = 0
    \/ getWorkbenchState = "FOLDER" /\ Len(fs) = 1

\* doAddFolders, lines 200-220
doAddFolders(toAdd, hasIndex, index, donotNotifyError, l) ==
    IF getWorkbenchState # "WORKSPACE"
    THEN IF isNoOpForState(newWorkspaceFolders(toAdd, hasIndex, index))
         THEN resolveNow(l)
         ELSE /\ createAndEnterWorkspace(newWorkspaceFolders(toAdd, hasIndex, index),
                                         NoPath, l)
              /\ UNCHANGED edits
    ELSE delegate("addFolders", toAdd, <<>>, hasIndex, index, donotNotifyError, l)

\* a removal that enters an empty workspace whenever no folder would be left
removeFoldersLeavingNone(toRemove, donotNotifyError, l) ==
    IF \A i \in 1..Len(folders) : \E j \in 1..Len(toRemove) : isEqual(toRemove[j], folders[i])
    THEN createAndEnterWorkspace(<<>>, NoPath, l) /\ UNCHANGED edits
    ELSE delegate("removeFolders", <<>>, toRemove, FALSE, 0, donotNotifyError, l)

\* removeFolders, lines 222-233
removeFolders(toRemove, donotNotifyError, l) ==
    IF includesSingleFolderWorkspace(toRemove)
    THEN createAndEnterWorkspace(<<>>, NoPath, l) /\ UNCHANGED edits
    ELSE delegate("removeFolders", <<>>, toRemove, FALSE, 0, donotNotifyError, l)

\* doUpdateFolders, lines 191-194
doUpdateFolders(toAdd, toDelete, index, donotNotifyError, l) ==
    delegate("updateFolders", toAdd, toDelete, TRUE, index, donotNotifyError, l)

\* a slice whose end is inclusive
foldersToDeleteInclusive(index, hasDeleteCount, deleteCount) ==
    IF hasDeleteCount THEN Slice(folders, index, index + deleteCount + 1) ELSE <<>>

\* lines 149-152
foldersToDelete(index, hasDeleteCount, deleteCount) ==
    IF hasDeleteCount THEN Slice(folders, index, index + deleteCount) ELSE <<>>

\* lines 154-155
wantsToDelete(index, hasDeleteCount, deleteCount) ==
    Len(foldersToDelete(index, hasDeleteCount, deleteCount)) > 0

wantsToAdd(hasFoldersToAdd, toAdd) == hasFoldersToAdd /\ Len(toAdd) > 0

\* updateFolders, lines 146-189
updateFolders(a, l) ==
    LET del == foldersToDelete(a.index, a.hasDeleteCount, a.deleteCount)
        wDel == wantsToDelete(a.index, a.hasDeleteCount, a.deleteCount)
        wAdd == wantsToAdd(a.hasFoldersToAdd, a.foldersToAdd)
    IN  IF ~wAdd /\ ~wDel THEN resolveNow(l)
        ELSE IF wAdd /\ ~wDel
        THEN doAddFolders(a.foldersToAdd, TRUE, a.index, a.donotNotifyError, l)
        ELSE IF wDel /\ ~wAdd
        THEN removeFolders(del, FALSE, l)
        ELSE IF includesSingleFolderWorkspace(del)
        THEN createAndEnterWorkspace(a.foldersToAdd, NoPath, l) /\ UNCHANGED edits
        ELSE IF getWorkbenchState # "WORKSPACE"
        THEN doAddFolders(a.foldersToAdd, TRUE, a.index, a.donotNotifyError, l)
        ELSE doUpdateFolders(a.foldersToAdd, del, a.index, a.donotNotifyError, l)

\* the add paths read donotNotifyError only in WORKSPACE state
NotifyChoices == IF getWorkbenchState = "WORKSPACE" THEN BOOLEAN ELSE {FALSE}

restVars == <<remoteAuthority, backupConcrete, windows, wsKeys, warned, valid, dialogVars>>

UpdateFoldersCall ==
    /\ pc = "idle"
    /\ UNCHANGED ansVars
    /\ \E index \in 0..MaxIndex, hasDeleteCount \in BOOLEAN, deleteCount \in 0..MaxIndex,
       hasFoldersToAdd \in BOOLEAN, toAdd \in SeqsUpTo(URIs, MaxAdd),
       donotNotifyError \in NotifyChoices :
        /\ ~hasDeleteCount => deleteCount = 0
        /\ ~hasFoldersToAdd => toAdd = <<>>
        /\ Called("updateFolders",
                  [NoArgs EXCEPT !.index = index, !.hasDeleteCount = hasDeleteCount,
                                 !.deleteCount = deleteCount,
                                 !.hasFoldersToAdd = hasFoldersToAdd,
                                 !.foldersToAdd = toAdd,
                                 !.donotNotifyError = donotNotifyError])
        /\ updateFolders(args', <<>>)
        /\ UNCHANGED <<sessVars, restVars>>

\* addFolders, lines 196-198
AddFoldersCall ==
    /\ pc = "idle"
    /\ UNCHANGED ansVars
    /\ \E toAdd \in SeqsUpTo(URIs, MaxAddFolders), donotNotifyError \in NotifyChoices :
        /\ Called("addFolders",
                  [NoArgs EXCEPT !.hasFoldersToAdd = TRUE, !.foldersToAdd = toAdd,
                                 !.donotNotifyError = donotNotifyError])
        /\ doAddFolders(toAdd, FALSE, 0, donotNotifyError, <<>>)
        /\ UNCHANGED <<sessVars, restVars>>

RemoveFoldersCall ==
    /\ pc = "idle"
    /\ UNCHANGED ansVars
    /\ \E toRemove \in SeqsUpTo(URIs, MaxAdd), donotNotifyError \in BOOLEAN :
        /\ Called("removeFolders",
                  [NoArgs EXCEPT !.foldersToAdd = toRemove,
                                 !.donotNotifyError = donotNotifyError])
        /\ removeFolders(toRemove, donotNotifyError, <<>>)
        /\ UNCHANGED <<sessVars, restVars>>

\* the folder list after the edit: the removed folders are dropped, the new
\* ones that are not yet present are inserted at the index
RECURSIVE withoutFolders(_, _)
withoutFolders(s, del) ==
    IF s = <<>> THEN <<>>
    ELSE IF \E i \in 1..Len(del) : isEqual(del[i], Head(s))
         THEN withoutFolders(Tail(s), del)
         ELSE <<Head(s)>> \o withoutFolders(Tail(s), del)

editedFolders(e) ==
    LET kept == withoutFolders(folders, e.del)
        new  == withoutFolders(distinct(e.add), kept)
    IN  IF getWorkbenchState # "WORKSPACE" THEN folders
        ELSE Splice(kept, IF e.hasIndex THEN e.index ELSE Len(kept), new)

ErrorCodes == {"ERROR_INVALID_FILE", "ERROR_FILE_DIRTY", "ERROR_UNKNOWN_KEY"}

\* handleWorkspaceConfigurationEditingError, lines 304-316: the calls it makes
handleWorkspaceConfigurationEditingError(code, l) ==
    IF code \in {"ERROR_INVALID_FILE", "ERROR_FILE_DIRTY"}
    THEN l \o <<"notification.prompt">>
    ELSE l \o <<"notification.error">>

\* the edit of the workspace context service settles, lines 193, 219, 232
EditSettled ==
    /\ pc = "ctx_edit"
    /\ LET e == edits[Len(edits)] IN
        \/ /\ folders' = editedFolders(e)
           /\ files' = IF configuration = NoPath THEN files
                       ELSE [files EXCEPT ![getComparisonKey(configuration)].folders =
                                            editedFolders(e)]
           /\ Settle("resolved", "none", log)
           /\ UNCHANGED failed
        \/ \E code \in ErrorCodes :
            /\ failed' = "edit"
            /\ IF e.donotNotifyError
               THEN Settle("rejected", code, log)
               ELSE Settle("resolved", code,
                           handleWorkspaceConfigurationEditingError(code, log))
            /\ UNCHANGED <<folders, files>>
    /\ UNCHANGED <<hostAnswer, platform, inv, configuration, recent, callVars, outVars, created, validating,
                   path, source, raw, cont, extensionHostStarted, prevState, extHost,
                   testMode>>

----------------------------------------------------------------------------
(* saveUntitedBeforeShutdown, lines 59-135 *)

\* ShutdownReason
ShutdownReasons == {"CLOSE", "QUIT", "RELOAD", "LOAD"}

\* line 69: only interested when the window is closing or loading
interestingReason(reason) == reason = "LOAD" \/ reason = "CLOSE"

\* line 73: the workspace is an untitled one
isUntitledWorkspace(id) == id # NoPath /\ isUntitled(id)

\* a short-circuit that forgets that macOS keeps running without windows
quitsWithLastWindowAnywhere(reason, count) ==
    reason = "CLOSE" /\ count = 1

\* line 78: Windows/Linux quit when the last window is closed, so do not ask
quitsWithLastWindow(reason, count) ==
    reason = "CLOSE" /\ ~isMacintosh /\ count = 1

\* lines 91-98: the buttons, by their results
buttons ==
    IF isWindows THEN <<"SAVE", "DONT_SAVE", "CANCEL">>
    ELSE IF isLinux THEN <<"DONT_SAVE", "CANCEL", "SAVE">>
    ELSE <<"SAVE", "CANCEL", "DONT_SAVE">>

\* Array.prototype.indexOf, 0-based
indexOf(s, x) == (CHOOSE i \in 1..Len(s) : s[i] = x) - 1

\* a cancelId that is the last button on every platform
cancelIdLast(bs) == Len(bs) - 1

\* line 102
cancelIdOf(bs) == indexOf(bs, "CANCEL")

\* a delete that is never issued
deleteNothing(id) == files

\* workspaceService.deleteUntitledWorkspace(workspaceIdentifier)
deleteUntitledWorkspace(id) == [files EXCEPT ![getComparisonKey(id)] = NoFile]

\* lifecycleService.onBeforeShutdown fires, lines 59-77
BeforeShutdown ==
    /\ pc = "idle"
    /\ \E reason \in ShutdownReasons :
        /\ Called("beforeShutdown", [NoArgs EXCEPT !.reason = reason])
        /\ IF ~interestingReason(reason)
              \/ ~isUntitledWorkspace(getCurrentWorkspaceIdentifier)
           THEN /\ Settle("undefined", "none", log)
                /\ UNCHANGED source
           ELSE /\ pc' = "sd_count"
                /\ source' = getCurrentWorkspaceIdentifier
                /\ log' = log \o <<"getWindowCount">>
                /\ UNCHANGED <<result, error>>
    /\ UNCHANGED <<sessVars, outVars, ansVars, created, validating, path, raw, cont,
                   extensionHostStarted, prevState, extHost, testMode>>

\* windowsService.getWindowCount() settles, lines 77-104
WindowsCounted ==
    /\ pc = "sd_count"
    /\ \E count \in 1..MaxWindows :
        /\ windowCount' = count
        /\ IF quitsWithLastWindow(args.reason, count)
           THEN /\ Settle("false", "none", log)
                /\ UNCHANGED <<shown, cancelId>>
           ELSE /\ pc' = "sd_dialog"
                /\ shown' = buttons
                /\ cancelId' = cancelIdOf(buttons)
                /\ log' = log \o <<"dialog.show">>
                /\ UNCHANGED <<result, error>>
    /\ UNCHANGED <<ansVars, sessVars, callVars, remoteAuthority, backupConcrete, windows, edits,
                   wsKeys, warned, valid, user, picked, created, validating, path, source, raw,
                   cont, extensionHostStarted, prevState, extHost, testMode>>

\* what the user may do with the dialog: press a button or dismiss it
UserActions == {"SAVE", "DONT_SAVE", "CANCEL", "DISMISS"}

\* the index dialogService.show resolves to
dialogResult(action) ==
    IF action = "DISMISS" THEN cancelId ELSE indexOf(shown, action)

\* dialogService.show settles, lines 104-131
DialogAnswered ==
    /\ pc = "sd_dialog"
    /\ \E action \in UserActions :
        /\ user' = action
        /\ LET res == dialogResult(action)
               chosen == buttons[res + 1]
           IN  CASE chosen = "CANCEL" ->
                     /\ Settle("true", "none", log)
                     /\ UNCHANGED files
                 [] chosen = "DONT_SAVE" ->
                     /\ files' = deleteUntitledWorkspace(source)
                     /\ Settle("false", "none", log \o <<"deleteUntitledWorkspace">>)
                 [] chosen = "SAVE" ->
                     /\ pc' = "sd_pick"
                     /\ log' = log \o <<"showSaveDialog">>
                     /\ UNCHANGED <<files, result, error>>
    /\ UNCHANGED <<ansVars, platform, inv, folders, configuration, recent, callVars, remoteAuthority,
                   backupConcrete, windows, edits, wsKeys, warned, valid, windowCount, shown,
                   cancelId, picked, created, validating, path, source, raw, cont,
                   extensionHostStarted, prevState, extHost, testMode>>

\* pickNewWorkspacePath settles, lines 118-129
PathPicked ==
    /\ pc = "sd_pick"
    /\ \E newWorkspacePath \in Paths \cup {NoPath} :
        /\ picked' = newWorkspacePath
        /\ IF newWorkspacePath # NoPath
           THEN saveWorkspaceAs(source, newWorkspacePath, "shutdown", log)
           ELSE /\ Settle("true", "none", log)
                /\ UNCHANGED <<created, path, source, raw, cont, extensionHostStarted,
                               prevState, extHost, testMode>>
    /\ UNCHANGED <<ansVars, sessVars, callVars, remoteAuthority, backupConcrete, windows, edits,
                   wsKeys, warned, valid, windowCount, shown, cancelId, user, validating>>

\* line 120-121: the save is done, the identifier of the new workspace is asked for
SavedThenIdentify ==
    /\ pc = "sa_done"
    /\ cont = "shutdown"
    /\ pc' = "sd_identify"
    /\ log' = log \o <<"getWorkspaceIdentifier">>
    /\ UNCHANGED <<ansVars, sessVars, callVars, outVars, result, error, created, validating, path,
                   source, raw, cont, extensionHostStarted, prevState, extHost, testMode>>

\* a guard that keeps the veto when the save failed
saveFailedKeepsVeto == "true"

\* line 127: what the guard resolves to when the save failed
saveFailedResult == "false"

\* line 127: the save failed, the unload is not vetoed
SaveFailedShutdown ==
    /\ pc = "sa_failed"
    /\ cont = "shutdown"
    /\ Settle(saveFailedResult, "none", log)
    /\ UNCHANGED <<ansVars, sessVars, callVars, outVars, created, validating, path, source, raw,
                   cont, extensionHostStarted, prevState, extHost, testMode>>

\* workspaceService.getWorkspaceIdentifier(newWorkspacePath) settles, lines 121-126
WorkspaceIdentified ==
    /\ pc = "sd_identify"
    /\ \/ /\ recent' = recent \cup {getComparisonKey(path)}
          /\ files' = deleteUntitledWorkspace(source)
          /\ Settle("false", "none",
                    log \o <<"addRecentlyOpened", "deleteUntitledWorkspace">>)
          /\ UNCHANGED failed
       \/ /\ Settle("rejected", "ErrIdentify", log)
          /\ failed' = "identify"
          /\ UNCHANGED <<recent, files>>
    /\ UNCHANGED <<hostAnswer, platform, inv, folders, configuration, callVars, outVars, created, validating,
                   path, source, raw, cont, extensionHostStarted, prevState, extHost,
                   testMode>>

----------------------------------------------------------------------------
Next ==
    \/ EnterWorkspaceCall
    \/ HostEntered
    \/ StorageMigrated
    \/ SettingsWritten
    \/ ConfigInitialized
    \/ EnterRejected
    \/ ContentResolved
    \/ FileCreated
    \/ SavedThenEnter
    \/ SaveFailedEnter
    \/ IsValidTargetWorkspacePathCall
    \/ WindowsListed
    \/ CreateAndEnterWorkspaceCall
    \/ UntitledCreated
    \/ SaveAndEnterWorkspaceCall
    \/ UpdateFoldersCall
    \/ AddFoldersCall
    \/ RemoveFoldersCall
    \/ EditSettled
    \/ BeforeShutdown
    \/ WindowsCounted
    \/ DialogAnswered
    \/ PathPicked
    \/ SavedThenIdentify
    \/ SaveFailedShutdown
    \/ WorkspaceIdentified

Spec == Init /\ [][Next]_vars

----------------------------------------------------------------------------
(* Sequences of folder edits in a workspace session *)

FolderOperations == {"updateFolders", "addFolders", "removeFolders"}

\* the client has the settled promise of a folder operation in hand and the
\* service is ready for the next call
FolderCallReturned ==
    /\ pc = "done"
    /\ op \in FolderOperations
    /\ pc' = "idle"
    /\ op' = "none"
    /\ args' = NoArgs
    /\ pre' = NoSnapshot
    /\ edits' = <<>>
    /\ log' = <<>>
    /\ result' = "pending"
    /\ error' = "none"
    /\ failed' = "none"
    /\ UNCHANGED <<sessVars, restVars, hostAnswer, created, validating, path, source, raw,
                   cont, extensionHostStarted, prevState, extHost, testMode>>

\* the session has a workspace open
InitWorkspace == Init /\ configuration # NoPath

NextFolderEdits ==
    \/ UpdateFoldersCall
    \/ AddFoldersCall
    \/ RemoveFoldersCall
    \/ EditSettled
    \/ FolderCallReturned

SpecFolderEdits == InitWorkspace /\ [][NextFolderEdits]_vars

----------------------------------------------------------------------------
(* Two enterWorkspace invocations side by side, lines 337-381.  Each       *)
(* invocation has its own closure: its path, its extensionHostStarted and  *)
(* its chain of continuations.  The services and the extension host are    *)
(* shared, and log is the trace of the calls of both.                      *)

\* what no step of an invocation touches
aloneVars ==
    <<platform, testMode, recent, windows, validating, pc, callVars, path, source,
      raw, cont, extensionHostStarted, prevState, created, edits, result, error,
      warned, valid, dialogVars, ansVars>>

\* a start callback that only reloads the window in a remote session
startExtensionHostOnlyReloads(l, ra) ==
    /\ log' = (IF ra THEN l \o <<"reloadWindow">> ELSE l \o <<"startExtensionHost">>)
    /\ extHost' = (IF ra THEN extHost ELSE "running")
    /\ remoteAuthority' = ra

\* the closure startExtensionHost of an invocation runs, lines 347-354
startExtensionHostRuns(l, ra) ==
    /\ log' = startExtensionHost(l, ra)
    /\ extHost' = "running"
    /\ remoteAuthority' = ra

\* the workspace files the overlapping invocations are asked to enter: one
\* that exists in every session and one that exists in some
EnterTargets == {"T1", "U1"}

\* lines 338-356: the test location is not set; the extension host is stopped,
\* the closure is created and the window host is asked to enter.  Invocations
\* are numbered in the order they are made.
InvocationCalled ==
    \E i \in Invocations, p \in EnterTargets :
        /\ inv[i].pc = "idle"
        /\ \A j \in Invocations : j < i => inv[j].pc # "idle"
        /\ ~testMode
        /\ log' = log \o <<"stopExtensionHost", "enterWorkspace">>
        /\ extHost' = "stopped"
        /\ inv' = [inv EXCEPT ![i] = [NoInvocation EXCEPT !.pc = "ew_enter",
                                                           !.path = p]]
        /\ UNCHANGED <<aloneVars, configuration, folders, files, wsKeys,
                       backupConcrete, remoteAuthority>>

\* windowService.enterWorkspace(path) of invocation i settles, lines 356-374
InvocationHostEntered ==
    \E i \in Invocations :
        /\ inv[i].pc = "ew_enter"
        /\ \/ /\ fileAt(inv[i].path).exists
              /\ inv' = [inv EXCEPT ![i].answer = "result", ![i].pc = "ew_storage"]
              /\ log' = log \o <<"storage.migrate">>
           \/ /\ inv' = [inv EXCEPT ![i].answer = "undefined", ![i].pc = "done",
                                    ![i].result = "resolved"]
              /\ UNCHANGED log
           \/ /\ inv' = [inv EXCEPT ![i].answer = "error", ![i].pc = "ew_catch"]
              /\ UNCHANGED log
        /\ UNCHANGED <<aloneVars, extHost, configuration, folders, files, wsKeys,
                       backupConcrete, remoteAuthority>>

\* lines 362-369 in invocation i
InvocationAfterMigrate(i, l) ==
    \E bc \in BOOLEAN :
        /\ backupConcrete' = bc
        /\ \/ /\ inv' = [inv EXCEPT ![i].pc = "ew_init"]
              /\ log' = (IF bc THEN l \o <<"backup.initialize">> ELSE l)
                           \o <<"config.initialize">>
           \/ /\ bc
              /\ inv' = [inv EXCEPT ![i].pc = "ew_catch"]
              /\ log' = l \o <<"backup.initialize">>

\* storageImpl.migrate(toWorkspace) of invocation i settles, lines 386-394; the
\* workbench state is the one of the session at that moment
InvocationStorageMigrated ==
    \E i \in Invocations :
        /\ inv[i].pc = "ew_storage"
        /\ \/ /\ migratesSettings
              /\ \E wk \in SUBSET Keys : wsKeys' = wk
              /\ inv' = [inv EXCEPT ![i].pc = "ew_settings"]
              /\ log' = log \o <<"settings.write">>
              /\ UNCHANGED backupConcrete
           \/ /\ ~migratesSettings
              /\ InvocationAfterMigrate(i, log)
              /\ UNCHANGED wsKeys
           \/ /\ inv' = [inv EXCEPT ![i].pc = "ew_catch"]
              /\ UNCHANGED <<log, wsKeys, backupConcrete>>
        /\ UNCHANGED <<aloneVars, extHost, configuration, folders, files,
                       remoteAuthority>>

\* jsonEditingService.write of invocation i settles, lines 390 and 424
InvocationSettingsWritten ==
    \E i \in Invocations :
        /\ inv[i].pc = "ew_settings"
        /\ \/ /\ files' = [files EXCEPT ![getComparisonKey(inv[i].path)].settings =
                                         targetWorkspaceConfiguration(wsKeys, TRUE)]
              /\ InvocationAfterMigrate(i, log)
           \/ /\ inv' = [inv EXCEPT ![i].pc = "ew_catch"]
              /\ UNCHANGED <<log, files, backupConcrete>>
        /\ UNCHANGED <<aloneVars, extHost, configuration, folders, wsKeys,
                       remoteAuthority>>

\* workspaceImpl.initialize(result.workspace, startExtensionHost) of invocation
\* i settles: it fails before running the callback, or runs it and then
\* resolves or fails
InvocationConfigInitialized ==
    \E i \in Invocations :
        /\ inv[i].pc = "ew_init"
        /\ \/ /\ inv' = [inv EXCEPT ![i].pc = "ew_catch"]
              /\ UNCHANGED <<folders, configuration, extHost, log, remoteAuthority>>
           \/ /\ configuration' = inv[i].path
              /\ folders' = resolvedFolders(inv[i].path)
              /\ \E ra \in BOOLEAN : startExtensionHostRuns(log, ra)
              /\ \/ inv' = [inv EXCEPT ![i].extensionHostStarted = TRUE,
                                       ![i].pc = "done", ![i].result = "resolved"]
                 \/ inv' = [inv EXCEPT ![i].extensionHostStarted = TRUE,
                                       ![i].pc = "ew_catch"]
        /\ UNCHANGED <<aloneVars, files, wsKeys, backupConcrete>>

\* the rejection handler of invocation i, lines 374-380
InvocationRejected ==
    \E i \in Invocations :
        /\ inv[i].pc = "ew_catch"
        /\ IF startsOnError(inv[i].extensionHostStarted)
           THEN \E ra \in BOOLEAN : startExtensionHostRuns(log, ra)
           ELSE UNCHANGED <<log, extHost, remoteAuthority>>
        /\ inv' = [inv EXCEPT ![i].extensionHostStarted = TRUE, ![i].pc = "done",
                              ![i].result = "rejected"]
        /\ UNCHANGED <<aloneVars, configuration, folders, files, wsKeys,
                       backupConcrete>>

NextOverlap ==
    \/ InvocationCalled
    \/ InvocationHostEntered
    \/ InvocationStorageMigrated
    \/ InvocationSettingsWritten
    \/ InvocationConfigInitialized
    \/ InvocationRejected

SpecOverlap == Init /\ [][NextOverlap]_vars

----------------------------------------------------------------------------
(* Properties *)

Count(l, x) == Cardinality({i \in 1..Len(l) : l[i] = x})

Has(l, x) == \E i \in 1..Len(l) : l[i] = x

\* every x in l comes before every y in l
Before(l, x, y) ==
    \A i, j \in 1..Len(l) : l[i] = x /\ l[j] = y => i < j

\* the calls of the pipeline of enterWorkspace after the host was asked
MigrationCalls ==
    {"storage.migrate", "settings.write", "backup.initialize", "config.initialize"}

\* C1: when the host declines to enter (answers nothing) outside test mode,
\* nothing is migrated or reinitialized and the extension host, stopped in
\* step 1, is started again before the operation completes.
C1_DeclinedRestartsRuntime ==
    (pc = "done" /\ ~testMode /\ hostAnswer = "undefined") =>
        /\ \A c \in MigrationCalls : ~Has(log, c)
        /\ Has(log, "startExtensionHost")
        /\ extHost = "running"

\* the steps of the pipeline from host-enter onward, in order
PipelineOrder ==
    <<"enterWorkspace", "storage.migrate", "settings.write", "backup.initialize",
      "config.initialize">>

FailedSteps == {"enter", "storage", "settings", "backup", "initialize"}

StepOf(f) ==
    CASE f = "enter" -> 1 [] f = "storage" -> 2 [] f = "settings" -> 3
      [] f = "backup" -> 4 [] f = "initialize" -> 5

ErrorOf(f) ==
    CASE f = "enter" -> "ErrEnter" [] f = "storage" -> "ErrStorage"
      [] f = "settings" -> "ErrSettings" [] f = "backup" -> "ErrBackup"
      [] f = "initialize" -> "ErrInitialize"

\* C2: when a step from host-enter onward fails, no later step of the
\* pipeline is called, the extension host start signal is issued exactly once
\* by the time the operation rejects, and it rejects with the error of the
\* step that failed.
C2_FailureStartsOnceAndRejects ==
    (failed \in FailedSteps) =>
        /\ \A k \in 1..Len(PipelineOrder) :
              k > StepOf(failed) => ~Has(log, PipelineOrder[k])
        /\ failed = "enter" => ~Has(log, "storage.migrate") /\ ~Has(log, "settings.write")
        /\ Count(log, "startExtensionHost") <= 1
        /\ pc = "done" =>
              /\ Count(log, "startExtensionHost") = 1
              /\ result = "rejected"
              /\ error = ErrorOf(failed)
              /\ extHost = "running"

\* the host fails, the safety net starts the extension host once
C2_Witness ==
    /\ pc = "done" /\ failed = "enter" /\ result = "rejected"
    /\ Count(log, "startExtensionHost") = 1

\* configuration reinitialization fails after it has started the extension host
C2_WitnessStartedBefore ==
    /\ pc = "done" /\ failed = "initialize" /\ result = "rejected"
    /\ log[Len(log)] = "startExtensionHost"
    /\ Has(log, "config.initialize")

\* C3: createAndEnterWorkspace(folders, path) and saveAndEnterWorkspace(path)
\* with a path that a window has open as its workspace are rejected at once:
\* no untitled workspace is created, nothing is written, the extension host
\* is not stopped and the host is not asked to enter.
C3_OpenTargetRejected ==
    (/\ op \in {"createAndEnterWorkspace", "saveAndEnterWorkspace"}
     /\ args.path # NoPath
     /\ \E w \in windows : isEqual(w, args.path)) =>
        /\ created = <<>>
        /\ ~Has(log, "createFile")
        /\ ~Has(log, "stopExtensionHost")
        /\ ~Has(log, "enterWorkspace")
        /\ pc = "done" => result = "rejected"

\* argument order, first occurrence of every comparison key kept
RECURSIVE DedupedInOrder(_)
DedupedInOrder(s) ==
    IF s = <<>> THEN <<>>
    ELSE LET init == DedupedInOrder(SubSeq(s, 1, Len(s) - 1))
             last == s[Len(s)]
         IN  IF \E i \in 1..Len(init) : isEqual(init[i], last)
             THEN init ELSE Append(init, last)

\* updateFolders is asked to replace the only folder of a FOLDER session
ReplacesSingleFolder ==
    /\ op = "updateFolders"
    /\ pre.state = "FOLDER"
    /\ args.hasDeleteCount /\ args.index = 0 /\ args.deleteCount >= 1
    /\ args.hasFoldersToAdd /\ Len(args.foldersToAdd) > 0

\* C4: in FOLDER state, updateFolders with a deletion range covering the only
\* folder and a non-empty list to add creates one workspace whose folders are
\* the folders to add, de-duplicated by comparison key in argument order.
C4_ReplaceCreatesDeduped ==
    (ReplacesSingleFolder /\ created # <<>>) =>
        /\ created = <<DedupedInOrder(args.foldersToAdd)>>
        /\ edits = <<>>
        /\ (pc = "done" /\ result = "resolved") =>
              /\ getWorkbenchState = "WORKSPACE"
              /\ folders = DedupedInOrder(args.foldersToAdd)

\* the registered keys of window scope
WindowKeys == {k \in RegisteredKeys : scopeOf(k) = "WINDOW"}

\* the pipeline has gone past the settings step
PastSettings == Has(log, "config.initialize") \/ Has(log, "backup.initialize")

\* C5: during migration, settings are written iff the state before entry
\* was FOLDER, and the block written holds exactly the registered
\* window-scoped keys among the workspace-level keys, with their
\* workspace-level values.
C5_OnlyWindowSettingsFromFolder ==
    /\ Has(log, "settings.write") => prevState = "FOLDER"
    /\ (PastSettings /\ prevState = "FOLDER") => Has(log, "settings.write")
    /\ (PastSettings /\ Has(log, "settings.write")) =>
          fileAt(path).settings =
              {<<k, <<"workspace", k>>>> : k \in wsKeys \cap WindowKeys}

\* a machine-scoped and a window-scoped key are both effective; only the
\* window-scoped one is written
C5_Witness ==
    /\ PastSettings /\ prevState = "FOLDER"
    /\ {"kWindow", "kMachine", "kResource"} \subseteq wsKeys
    /\ fileAt(path).settings = {<<"kWindow", <<"workspace", "kWindow">>>>}

\* the order of the buttons by platform
ButtonOrder ==
    IF platform = "windows" THEN <<"SAVE", "DONT_SAVE", "CANCEL">>
    ELSE IF platform = "linux" THEN <<"DONT_SAVE", "CANCEL", "SAVE">>
    ELSE <<"SAVE", "CANCEL", "DONT_SAVE">>

NothingDeleted ==
    /\ files = pre.files
    /\ ~Has(log, "deleteUntitledWorkspace")

\* C6: when the guard prompts, on every platform's button order: Cancel and
\* dismissing veto and delete nothing; Don't Save allows shutdown and deletes
\* the untitled workspace without saving; Save with no target picked vetoes
\* and deletes nothing.
C6_PromptChoices ==
    /\ shown # <<>> => shown = ButtonOrder /\ shown[cancelId + 1] = "CANCEL"
    /\ user \in {"CANCEL", "DISMISS"} =>
          pc = "done" /\ result = "true" /\ NothingDeleted
    /\ user = "DONT_SAVE" =>
          /\ pc = "done" /\ result = "false"
          /\ ~fileAt(pre.configuration).exists
          /\ Has(log, "deleteUntitledWorkspace")
          /\ ~Has(log, "resolveContent") /\ ~Has(log, "createFile")
    /\ (user = "SAVE" /\ pc = "done" /\ picked = NoPath) =>
          result = "true" /\ NothingDeleted

C6_Witness ==
    /\ platform = "linux" /\ user = "DISMISS" /\ pc = "done" /\ result = "true"

C6_WitnessDontSave ==
    /\ user = "DONT_SAVE" /\ pc = "done" /\ ~fileAt(pre.configuration).exists

\* Save was chosen and a target was picked
SavedWithTarget ==
    op = "beforeShutdown" /\ pc = "done" /\ user = "SAVE" /\ picked # NoPath

C8_SaveFailureAllowsShutdown ==
    (SavedWithTarget /\ failed \in {"read", "write"}) =>
        /\ result = "false"
        /\ error = "none"

C8_Witness ==
    SavedWithTarget /\ failed = "write" /\ result = "false"

\* the guard has decided whether to prompt
GuardDecided == op = "beforeShutdown" /\ pc # "sd_count"

\* the guard is to prompt
ShouldPrompt ==
    /\ args.reason \in {"CLOSE", "LOAD"}
    /\ pre.configuration \in {"U1", "U2"}
    /\ ~(args.reason = "CLOSE" /\ platform # "mac" /\ windowCount = 1)

C9_WitnessLastWindow ==
    /\ GuardDecided /\ ~ShouldPrompt /\ platform = "linux" /\ args.reason = "CLOSE"
    /\ windowCount = 1 /\ pre.configuration = "U1" /\ result = "false"

\* the request names no folder to add and selects no folder to delete
NothingRequested ==
    /\ op = "updateFolders"
    /\ ~args.hasFoldersToAdd \/ args.foldersToAdd = <<>>
    /\ \/ ~args.hasDeleteCount
       \/ args.deleteCount = 0
       \/ args.index >= Len(pre.folders)

\* C10: an updateFolders request with no additions and no deletions succeeds
\* as a no-op in every workbench state: identity and folders are unchanged,
\* no workspace is created or entered, the extension host is not stopped and
\* no edit or file I/O is issued.
C10_NothingRequestedIsNoOp ==
    NothingRequested =>
        /\ pc = "done" /\ result = "resolved"
        /\ log = <<>> /\ created = <<>> /\ edits = <<>>
        /\ folders = pre.folders
        /\ configuration = pre.configuration
        /\ files = pre.files
        /\ extHost = pre.extHost

\* a deleteCount that selects an empty range of a non-empty folder list
C10_Witness ==
    /\ NothingRequested /\ pc = "done"
    /\ args.hasDeleteCount /\ args.deleteCount > 0 /\ Len(pre.folders) > 0

\* the call takes the add path of doAddFolders outside WORKSPACE state
OnAddPath ==
    /\ pre.state # "WORKSPACE"
    /\ \/ op = "addFolders"
       \/ /\ op = "updateFolders"
          /\ args.hasFoldersToAdd /\ Len(args.foldersToAdd) > 0
          /\ ~ReplacesSingleFolder

\* where the new folders go: the index of updateFolders, cut to the length of
\* the list, and the end of the list for addFolders
InsertionIndex ==
    IF op = "updateFolders" /\ args.index < Len(pre.folders)
    THEN args.index ELSE Len(pre.folders)

\* the current folders with the new folders put in at the insertion index,
\* first occurrence of every comparison key kept
CandidateList ==
    DedupedInOrder(SubSeq(pre.folders, 1, InsertionIndex)
                     \o args.foldersToAdd
                     \o SubSeq(pre.folders, InsertionIndex + 1, Len(pre.folders)))

\* C11: on the add path outside WORKSPACE state, the folder list handed to
\* workspace creation is the current folders with the new folders spliced in
\* at the insertion index (the end when no index is given), de-duplicated by
\* comparison key, first occurrence kept, order preserved.
C11_AddPathHandsDedupedSplice ==
    (OnAddPath /\ created # <<>>) => created = <<CandidateList>>

\* adding [a, b, a] to an empty list creates a workspace of [a, b]
C11_Witness ==
    /\ OnAddPath /\ pre.folders = <<>>
    /\ args.foldersToAdd = <<"a", "b", "a">>
    /\ created = <<<<"a", "b">>>>

\* new folders put in front of the current folder, which is among them
C11_WitnessAtIndex ==
    /\ OnAddPath /\ op = "updateFolders" /\ pre.folders = <<"a">>
    /\ args.index = 0 /\ args.foldersToAdd = <<"b", "a">>
    /\ created = <<<<"b", "a">>>>

\* the check of a target location has resolved
TargetChecked == valid # "none"

\* a window has the checked location open as its workspace
TargetIsOpen == \E w \in windows : isEqual(w, args.path)

\* C12: isValidTargetWorkspacePath(target) yields false, the warning having
\* been shown, whenever the configuration location of a workspace open in a
\* window equals the target, and yields true with no warning when none does.
C12_ValidIffNotOpen ==
    TargetChecked =>
        /\ valid = (IF TargetIsOpen THEN "false" ELSE "true")
        /\ warned = TargetIsOpen
        /\ op = "isValidTargetWorkspacePath" =>
              pc = "done" /\ result = valid /\ log = <<>>

\* the target differs in case from the location a window has open, on a
\* platform that ignores case
C12_Witness ==
    /\ op = "isValidTargetWorkspacePath" /\ pc = "done"
    /\ args.path = "T1" /\ windows = {"t1"} /\ platform = "windows"
    /\ result = "false" /\ warned

\* the same locations on Linux, where they are different files
C12_WitnessValid ==
    /\ op = "isValidTargetWorkspacePath" /\ pc = "done"
    /\ args.path = "T1" /\ windows = {"t1"} /\ platform = "linux"
    /\ result = "true" /\ ~warned

\* saveWorkspaceAs(source, path) has been called
SaveCalled == cont # "none"

\* the save is in progress or has just settled
Saving == pc \in {"sa_read", "sa_write", "sa_done", "sa_failed"}

\* C13: saveWorkspaceAs with a target equal to the workspace's configuration
\* location reads nothing, writes nothing and succeeds; with another target
\* it reads the source exactly once and then writes the rewritten contents
\* over the target, the write never being issued before the read has
\* completed.
C13_SaveAsIO ==
    SaveCalled =>
        IF isEqual(source, path)
        THEN /\ ~Has(log, "resolveContent") /\ ~Has(log, "createFile")
             /\ pc \notin {"sa_read", "sa_write", "sa_failed"}
             /\ failed \notin {"read", "write"}
             /\ Saving => fileAt(path) = pre.files[getComparisonKey(path)]
        ELSE /\ Count(log, "resolveContent") = 1
             /\ Count(log, "createFile") <= 1
             /\ Before(log, "resolveContent", "createFile")
             /\ pc = "sa_read" =>
                    /\ ~Has(log, "createFile")
                    /\ fileAt(path) = pre.files[getComparisonKey(path)]
             /\ pc = "sa_write" => Has(log, "createFile")
             /\ (pc = "sa_done" \/ pc = "sa_write") =>
                    /\ raw.exists
                    /\ raw.folders = fileAt(source).folders
                    /\ raw.settings = fileAt(source).settings
                    /\ raw.home = getComparisonKey(path)
             /\ pc = "sa_done" => Has(log, "createFile") /\ fileAt(path) = raw

\* a file that exists at the target has been overwritten
C13_Witness ==
    /\ SaveCalled /\ pc = "sa_done" /\ ~isEqual(source, path)
    /\ pre.files[getComparisonKey(path)].exists
    /\ pre.files[getComparisonKey(path)].folders # fileAt(source).folders
    /\ fileAt(path).folders = fileAt(source).folders

\* the target is written differently from the current location and equal to it
C13_WitnessEqual ==
    /\ SaveCalled /\ pc = "sa_done" /\ source # path /\ isEqual(source, path)
    /\ log = <<>>

\* the restart step of enterWorkspace has run in a remote-authority session
RestartedRemote == extensionHostStarted /\ remoteAuthority

\* C14: in a remote-authority session the restart step of enterWorkspace
\* requests a window reload in place of an in-process restart: the reload is
\* requested and the extension host start signal is not issued.
C14_RemoteReloadsInsteadOfStart ==
    RestartedRemote =>
        /\ Has(log, "reloadWindow")
        /\ ~Has(log, "startExtensionHost")

\* an edit delegated to the active workspace has failed and the call settled
EditFailed ==
    /\ op \in {"updateFolders", "addFolders", "removeFolders"}
    /\ failed = "edit"
    /\ pc = "done"

\* C15: when a folder edit delegated to the active workspace fails, a caller
\* that opted out of notification gets a rejection with the original error
\* and nothing is shown; otherwise the error is classified (the invalid-file
\* and dirty-file codes get the open-configuration prompt, any other code a
\* generic error notification) and the call resolves.
C15_FailedEditNotifiesOrRejects ==
    EditFailed =>
        IF args.donotNotifyError
        THEN /\ result = "rejected"
             /\ error \in ErrorCodes
             /\ ~Has(log, "notification.prompt") /\ ~Has(log, "notification.error")
        ELSE /\ result = "resolved"
             /\ IF error \in {"ERROR_INVALID_FILE", "ERROR_FILE_DIRTY"}
                THEN Has(log, "notification.prompt") /\ ~Has(log, "notification.error")
                ELSE Has(log, "notification.error") /\ ~Has(log, "notification.prompt")

\* C16: under a test harness every enterWorkspace call is refused outright:
\* it rejects with an error, the extension host is not stopped, the host is
\* not asked to enter, neither storage nor settings are migrated and the
\* active identity stays as it was.
C16_TestsRefuseEntry ==
    testMode =>
        /\ pc = "done" /\ result = "rejected" /\ error = "ErrTests"
        /\ ~Has(log, "stopExtensionHost") /\ ~Has(log, "enterWorkspace")
        /\ \A c \in MigrationCalls : ~Has(log, c)
        /\ ~Has(log, "startExtensionHost") /\ ~Has(log, "reloadWindow")
        /\ extHost = pre.extHost
        /\ configuration = pre.configuration
        /\ folders = pre.folders
        /\ hostAnswer = "none"

C16_Witness ==
    /\ testMode /\ op = "enterWorkspace" /\ pc = "done"
    /\ result = "rejected" /\ extHost = "running"

\* the entry at the end of saveAndEnterWorkspace is refused as well
C16_WitnessAfterSave ==
    /\ testMode /\ op = "saveAndEnterWorkspace" /\ pc = "done"
    /\ Has(log, "createFile") /\ result = "rejected"

\* the calls of enterWorkspace: the log from the stop signal on
EntryLog ==
    IF Has(log, "stopExtensionHost")
    THEN SubSeq(log, CHOOSE i \in 1..Len(log) : log[i] = "stopExtensionHost", Len(log))
    ELSE <<>>

\* the host accepted and enterWorkspace resolved
EnteredWorkspace == pc = "done" /\ result = "resolved" /\ hostAnswer = "result"

\* the steps of a successful entry, in order
EntrySteps ==
    <<"stopExtensionHost", "enterWorkspace", "storage.migrate">>
      \o (IF prevState = "FOLDER" THEN <<"settings.write">> ELSE <<>>)
      \o (IF backupConcrete THEN <<"backup.initialize">> ELSE <<>>)
      \o <<"config.initialize">>
      \o (IF remoteAuthority THEN <<"reloadWindow">> ELSE <<>>)
      \o <<"startExtensionHost">>

\* the last call made
LastCall == log[Len(log)]

\* C17: in a successful enterWorkspace run where the host accepts, the calls
\* are, in this order and each made only when the one before has completed:
\* stop of the extension host, host enter, storage migration, settings copy
\* (from FOLDER state only), backup re-point (for a concrete backup service
\* only), configuration reinitialization, start of the extension host.  The
\* start is issued only when the reinitialization has completed and never
\* before the storage migration has.
C17_EntryStepsInOrder ==
    /\ EnteredWorkspace => EntryLog = EntrySteps
    /\ pc = "ew_enter" => LastCall = "enterWorkspace"
    /\ pc = "ew_storage" => LastCall = "storage.migrate"
    /\ pc = "ew_settings" => LastCall = "settings.write" /\ prevState = "FOLDER"
    /\ pc = "ew_init" => LastCall = "config.initialize"
    /\ pc \in {"ew_enter", "ew_storage", "ew_settings", "ew_init"} =>
          /\ ~Has(log, "startExtensionHost")
          /\ extHost = "stopped"
    /\ Has(log, "backup.initialize") => backupConcrete
    /\ Has(log, "startExtensionHost") =>
          /\ Before(log, "stopExtensionHost", "startExtensionHost")
          /\ Before(log, "storage.migrate", "startExtensionHost")
          /\ Before(log, "config.initialize", "startExtensionHost")

\* all seven steps
C17_Witness ==
    /\ EnteredWorkspace /\ prevState = "FOLDER" /\ backupConcrete /\ ~remoteAuthority
    /\ Len(EntryLog) = 7

\* neither settings nor backup step
C17_WitnessShort ==
    /\ EnteredWorkspace /\ prevState = "WORKSPACE" /\ ~backupConcrete /\ ~remoteAuthority
    /\ Len(EntryLog) = 5

\* the folders a delete-only updateFolders selects
SelectedRange ==
    LET hi == IF args.index + args.deleteCount > Len(pre.folders)
              THEN Len(pre.folders) ELSE args.index + args.deleteCount
    IN  IF args.hasDeleteCount /\ args.index < hi
        THEN SubSeq(pre.folders, args.index + 1, hi) ELSE <<>>

\* the call is removeFolders, or an updateFolders that only deletes
OnRemovePath ==
    \/ op = "removeFolders"
    \/ /\ op = "updateFolders"
       /\ ~args.hasFoldersToAdd \/ args.foldersToAdd = <<>>
       /\ SelectedRange # <<>>

\* the folders to remove (removeFolders keeps its argument in foldersToAdd)
FoldersToRemove ==
    IF op = "removeFolders" THEN args.foldersToAdd ELSE SelectedRange

\* the folders to remove include the only folder of a FOLDER session
RemovesSoleFolder ==
    /\ pre.state = "FOLDER"
    /\ \E i \in 1..Len(FoldersToRemove) : isEqual(FoldersToRemove[i], pre.folders[1])

\* C18: removeFolders, and an updateFolders that only deletes, in FOLDER state
\* with the sole folder among the folders to remove creates and enters a
\* workspace of zero folders and issues no remove edit; in every other case
\* it issues exactly one remove edit against the active workspace and
\* neither creates nor enters a workspace.
C18_RemoveSoleFolderEntersEmpty ==
    OnRemovePath =>
        IF RemovesSoleFolder
        THEN /\ created = <<<<>>>>
             /\ edits = <<>>
             /\ ~Has(log, "removeFolders")
             /\ EnteredWorkspace =>
                   /\ configuration \in UntitledPaths
                   /\ folders = <<>>
        ELSE /\ Len(edits) = 1
             /\ edits[1].kind = "removeFolders"
             /\ edits[1].del = FoldersToRemove
             /\ Count(log, "removeFolders") = 1
             /\ created = <<>>
             /\ \A c \in {"createUntitledWorkspace", "stopExtensionHost", "enterWorkspace"} :
                    ~Has(log, c)
             /\ configuration = pre.configuration
             /\ extHost = pre.extHost

\* the sole folder is named in another case, on a platform that ignores case
C18_Witness ==
    /\ op = "removeFolders" /\ RemovesSoleFolder /\ args.foldersToAdd = <<"b", "A">>
    /\ EnteredWorkspace /\ folders = <<>> /\ configuration = "U1"

\* another folder than the sole one is removed in FOLDER state
C18_WitnessInPlace ==
    /\ op = "removeFolders" /\ pre.state = "FOLDER" /\ ~RemovesSoleFolder
    /\ args.foldersToAdd = <<"b">> /\ pc = "done" /\ Len(edits) = 1

\* the candidate list leaves the state as it is
LeavesStateUnchanged ==
    \/ pre.state = "EMPTY" /\ CandidateList = <<>>
    \/ /\ pre.state = "FOLDER"
       /\ Len(CandidateList) = 1
       /\ isEqual(CandidateList[1], pre.folders[1])

\* C19: on the add path outside WORKSPACE state the call succeeds with no
\* effect exactly when the de-duplicated candidate list leaves the state
\* unchanged (no folder in EMPTY state; in FOLDER state one folder, the
\* current one); in every other case a workspace of the candidate list is
\* created and entered.
C19_AddPathNoOpIffUnchanged ==
    OnAddPath =>
        IF LeavesStateUnchanged
        THEN /\ pc = "done" /\ result = "resolved"
             /\ log = <<>> /\ created = <<>> /\ edits = <<>>
             /\ configuration = pre.configuration
             /\ folders = pre.folders
             /\ files = pre.files
             /\ extHost = pre.extHost
        ELSE /\ created = <<CandidateList>>
             /\ Has(log, "createUntitledWorkspace")
             /\ edits = <<>>
             /\ EnteredWorkspace =>
                   /\ configuration \in UntitledPaths
                   /\ folders = CandidateList

\* the current folder, written in another case, is put in front of itself
C19_Witness ==
    /\ OnAddPath /\ op = "updateFolders" /\ pre.folders = <<"a">>
    /\ args.index = 0 /\ args.foldersToAdd = <<"A", "a">>
    /\ LeavesStateUnchanged /\ pc = "done" /\ result = "resolved" /\ log = <<>>

\* one more folder: a workspace of both is entered
C19_WitnessEntered ==
    /\ OnAddPath /\ op = "addFolders" /\ pre.folders = <<"a">>
    /\ args.foldersToAdd = <<"b", "a">>
    /\ EnteredWorkspace /\ folders = <<"a", "b">>

\* what a step of a folder operation leaves alone in a workspace session
KeepsWorkspace ==
    /\ configuration' = configuration
    /\ extHost' = extHost
    /\ created' = <<>>
    /\ \A c \in {"createUntitledWorkspace", "stopExtensionHost", "enterWorkspace"} :
          ~Has(log', c)

\* a settled call has made one edit, or none when nothing was requested
OneEditPerCall ==
    /\ getWorkbenchState = "WORKSPACE"
    /\ extHost = "running"
    /\ pc \in {"idle", "ctx_edit", "done"}
    /\ Len(edits) <= 1
    /\ pc \in {"ctx_edit", "done"} =>
          IF NothingRequested
          THEN edits = <<>>
          ELSE Len(edits) = 1 /\ edits[1].kind = log[1]

\* C20: WORKSPACE state is absorbing for folder edits: from a WORKSPACE
\* session, through any sequence of updateFolders, addFolders and
\* removeFolders calls, also ones that remove every folder, no workspace is
\* created or entered, the extension host is never stopped, the identifier of
\* the workspace stays the same, and every effective call is one in-place
\* edit of the active workspace.
C20_WorkspaceAbsorbing == [][KeepsWorkspace]_vars /\ []OneEditPerCall

\* a folder is added after an earlier call has removed every folder
C20_Witness ==
    /\ pre.configuration = "U1" /\ pre.folders = <<>> /\ pre.state = "WORKSPACE"
    /\ op = "addFolders" /\ pc = "done" /\ folders = <<"b">>
    /\ configuration = "U1"

\* the stop and start signals sent to the extension host, in order
IsSignal(c) == c \in {"stopExtensionHost", "startExtensionHost"}

Signals == SelectSeq(log, IsSignal)

BothCompleted == \A i \in Invocations : inv[i].pc = "done"

\* the window host entered the workspace or failed with an error
HostSucceededOrFailed == \A i \in Invocations : inv[i].answer \in {"result", "error"}

\* both invocations were called before either got an answer
Overlapping == SubSeq(log, 1, 4) = <<"stopExtensionHost", "enterWorkspace",
                                     "stopExtensionHost", "enterWorkspace">>

\* C21: for any interleaving of two overlapping enterWorkspace invocations
\* outside test mode in which each host-enter call succeeds or fails with an
\* error, once both invocations have completed the last signal sent to the
\* extension host is a start and not a stop: both stops were sent, every stop
\* is followed by a later start, and the extension host is running.
C21_LastSignalIsStart ==
    (BothCompleted /\ HostSucceededOrFailed) =>
        /\ Count(Signals, "stopExtensionHost") = 2
        /\ Signals[Len(Signals)] = "startExtensionHost"
        /\ \A k \in 1..Len(Signals) :
              Signals[k] = "stopExtensionHost" =>
                 \E m \in (k + 1)..Len(Signals) : Signals[m] = "startExtensionHost"
        /\ extHost = "running"

\* both were called before either was answered; one entered its workspace and
\* the host of the other failed
C21_Witness ==
    /\ BothCompleted /\ Overlapping
    /\ inv[1].answer = "result" /\ inv[1].result = "resolved"
    /\ inv[2].answer = "error" /\ inv[2].result = "rejected"
    /\ Signals[Len(Signals)] = "startExtensionHost"

\* the second invocation stops the extension host after the first one has
\* started it and before the first one is rejected
C21_WitnessStopAfterStart ==
    /\ BothCompleted /\ HostSucceededOrFailed
    /\ \A i \in Invocations : inv[i].result = "rejected"
    /\ Signals = <<"stopExtensionHost", "startExtensionHost",
                   "stopExtensionHost", "startExtensionHost">>
    /\ log[Len(log)] = "startExtensionHost"
    /\ Has(log, "config.initialize")

====
